---------------------------- MODULE Spec2Model ----------------------------
(***************************************************************************)
(* A model of vllm/platforms/cpu.py: the CPU platform's configuration      *)
(* resolver (CpuPlatform.check_and_update_config), its attention-backend   *)
(* selection (CpuPlatform.get_attn_backend_cls) and its topology discovery *)
(* (CpuPlatform.get_allowed_cpu_memory_node_list with LogicalCPUInfo).     *)
(*                                                                         *)
(* Three specifications share the module:                                  *)
(*   Spec      check_and_update_config, one action per rule of the method, *)
(*             called up to MaxCalls times on the same configuration;      *)
(*   SpecAttn  get_attn_backend_cls, one call per behaviour;               *)
(*   SpecTopo  get_allowed_cpu_memory_node_list, one call per behaviour.   *)
(*                                                                         *)
(* Python values are encoded as follows.  Optional[T]: None is <<>> and a  *)
(* value x is <<x>>.  A dict is a function on its keys.  A raised          *)
(* exception ends the call: the call's position becomes "failed" (or the   *)
(* result's status "raised") and the exception's name is recorded.         *)
(***************************************************************************)
EXTENDS Integers, Sequences, FiniteSets, TLC

VARIABLES
    cfg,          \* the VllmConfig passed to check_and_update_config
    cfg0,         \* the value of cfg when the current call was entered
    host,         \* what the call reads from the process: env vars, OS, extension
    environ,      \* os.environ entries written by check_and_update_config
    env_writes,   \* names of the os.environ entries written by the current call
    pc,           \* position of the current call of check_and_update_config
    failure,      \* the exception that ended the current call, "" if none
    calls,        \* number of calls of check_and_update_config started
    attn,         \* arguments and outcome of get_attn_backend_cls
    topo          \* inputs and outcome of get_allowed_cpu_memory_node_list

rvars == <<cfg, cfg0, host, environ, env_writes, pc, failure, calls>>
vars == <<cfg, cfg0, host, environ, env_writes, pc, failure, calls, attn, topo>>

None == <<>>
Some(x) == <<x>>

Max(a, b) == IF a >= b THEN a ELSE b

(***************************************************************************)
(* Bounds of the model.                                                    *)
(***************************************************************************)
\* Calls of check_and_update_config made in sequence on one configuration.
MaxCalls == 2
\* Length of the CPU list reported by lscpu.
MaxCpus == 3

(***************************************************************************)
(* Program constants.                                                      *)
(***************************************************************************)
\* vllm.utils.DEFAULT_MAX_NUM_BATCHED_TOKENS.
DEFAULT_MAX_NUM_BATCHED_TOKENS == 2048
\* vllm.utils.GiB_bytes, counted here in MiB (1 GiB = 1024 MiB) so that the
\* budget of 4 or 8 GiB stays within TLC's 32-bit integers.
GiB_bytes == 1024

TorchSDPABackend == "vllm.v1.attention.backends.cpu_attn.TorchSDPABackend"
CPUWorker == "vllm.v1.worker.cpu_worker.CPUWorker"


(***************************************************************************)
(* The inputs of check_and_update_config.                                  *)
(*                                                                         *)
(* The fields fall into two groups with no data flow between them in the   *)
(* method: the core group (model, cache, scheduler, device, extension) and *)
(* the auxiliary group (parallelism, compilation, LoRA, process            *)
(* environment).  Each group ranges over its whole set of values while the *)
(* other group takes one of three base values.                             *)
(***************************************************************************)
\* model_config: None, or its dtype (torch.half is "float16") and MLA flag.
ModelInputs ==
    {[has_model |-> FALSE, dtype |-> "float32", use_mla |-> FALSE]}
    \cup [has_model : {TRUE}, dtype : {"float16", "bfloat16"}, use_mla : BOOLEAN]

\* cache_config: None, or its block size, cache dtype and prefix-caching flag.
CacheInputs ==
    {[has_cache |-> FALSE, block_size |-> None, cache_dtype |-> "auto",
      enable_prefix_caching |-> FALSE]}
    \cup [has_cache : {TRUE}, block_size : {None, Some(16), Some(32)},
          cache_dtype : {"auto", "fp8_e4m3", "fp8_e5m2"},
          enable_prefix_caching : BOOLEAN]

\* scheduler_config.  chunked is the value of enable_chunked_prefill, which
\* SchedulerConfig copies into chunked_prefill_enabled when it is built.
SchedulerInputs ==
    [chunked : BOOLEAN, max_num_batched_tokens : {2048, 8192},
     max_model_len : {1024, 4096}]

CoreInputs ==
    [model : ModelInputs, cache : CacheInputs, sched : SchedulerInputs,
     device_type : {"cpu", "cuda"}, ipex_available : BOOLEAN]

\* get_max_threads reads the OS: sched_getaffinity exists (Linux), or the
\* system is Darwin, or neither.
OSInputs ==
    {[has_sched_getaffinity |-> TRUE, system |-> "Linux"],
     [has_sched_getaffinity |-> FALSE, system |-> "Darwin"],
     [has_sched_getaffinity |-> FALSE, system |-> "Windows"]}

AuxInputs ==
    [world_size : {1, 2}, distributed_executor_backend : {"None", "mp", "ray"},
     worker_cls : {"auto", "my.Worker"},
     level : {"NO_COMPILATION", "PIECEWISE"}, use_inductor : BOOLEAN,
     has_lora : BOOLEAN,
     VLLM_CPU_KVCACHE_SPACE : {None, Some(8)},
     VLLM_CPU_CI_ENV : {None, Some("0"), Some("1")},
     LD_PRELOAD : {None, Some("/usr/lib/libiomp5.so")},
     os : OSInputs]

CoreBase ==
    {[model |-> [has_model |-> TRUE, dtype |-> "float16", use_mla |-> TRUE],
      cache |-> [has_cache |-> TRUE, block_size |-> None,
                 cache_dtype |-> "auto", enable_prefix_caching |-> TRUE],
      sched |-> [chunked |-> TRUE, max_num_batched_tokens |-> 8192,
                 max_model_len |-> 4096],
      device_type |-> "cpu", ipex_available |-> FALSE],
     [model |-> [has_model |-> TRUE, dtype |-> "float16", use_mla |-> FALSE],
      cache |-> [has_cache |-> TRUE, block_size |-> Some(16),
                 cache_dtype |-> "fp8_e4m3", enable_prefix_caching |-> FALSE],
      sched |-> [chunked |-> FALSE, max_num_batched_tokens |-> 2048,
                 max_model_len |-> 1024],
      device_type |-> "cpu", ipex_available |-> TRUE],
     [model |-> [has_model |-> FALSE, dtype |-> "float32", use_mla |-> FALSE],
      cache |-> [has_cache |-> TRUE, block_size |-> None,
                 cache_dtype |-> "fp8_e5m2", enable_prefix_caching |-> FALSE],
      sched |-> [chunked |-> FALSE, max_num_batched_tokens |-> 8192,
                 max_model_len |-> 1024],
      device_type |-> "cuda", ipex_available |-> FALSE]}

AuxBase ==
    {[world_size |-> 2, distributed_executor_backend |-> "ray",
      worker_cls |-> "auto", level |-> "PIECEWISE", use_inductor |-> TRUE,
      has_lora |-> FALSE, VLLM_CPU_KVCACHE_SPACE |-> None,
      VLLM_CPU_CI_ENV |-> None, LD_PRELOAD |-> Some("/usr/lib/libiomp5.so"),
      os |-> [has_sched_getaffinity |-> TRUE, system |-> "Linux"]],
     [world_size |-> 1, distributed_executor_backend |-> "None",
      worker_cls |-> "my.Worker", level |-> "NO_COMPILATION",
      use_inductor |-> FALSE, has_lora |-> TRUE,
      VLLM_CPU_KVCACHE_SPACE |-> Some(8), VLLM_CPU_CI_ENV |-> Some("1"),
      LD_PRELOAD |-> None,
      os |-> [has_sched_getaffinity |-> FALSE, system |-> "Windows"]],
     [world_size |-> 2, distributed_executor_backend |-> "mp",
      worker_cls |-> "auto", level |-> "PIECEWISE", use_inductor |-> FALSE,
      has_lora |-> TRUE, VLLM_CPU_KVCACHE_SPACE |-> None,
      VLLM_CPU_CI_ENV |-> Some("0"), LD_PRELOAD |-> None,
      os |-> [has_sched_getaffinity |-> FALSE, system |-> "Darwin"]]}

ResolveInputs == (CoreInputs \X AuxBase) \cup (CoreBase \X AuxInputs)

\* The VllmConfig built from the inputs, before check_and_update_config.
MkConfig(core, aux) ==
    [has_model |-> core.model.has_model,
     disable_cascade_attn |-> FALSE,
     dtype |-> core.model.dtype,
     use_mla |-> core.model.use_mla,
     has_cache |-> core.cache.has_cache,
     block_size |-> core.cache.block_size,
     cache_dtype |-> core.cache.cache_dtype,
     enable_prefix_caching |-> core.cache.enable_prefix_caching,
     cpu_kvcache_space_bytes |-> None,
     enable_chunked_prefill |-> core.sched.chunked,
     chunked_prefill_enabled |-> core.sched.chunked,
     max_num_batched_tokens |-> core.sched.max_num_batched_tokens,
     max_model_len |-> core.sched.max_model_len,
     world_size |-> aux.world_size,
     tensor_parallel_size |-> aux.world_size,
     distributed_executor_backend |-> aux.distributed_executor_backend,
     worker_cls |-> aux.worker_cls,
     cudagraph_capture_sizes |-> <<1, 2, 4>>,
     level |-> aux.level,
     backend |-> "",
     inductor_compile_config |-> ("max_autotune" :> TRUE @@ "dce" :> FALSE),
     use_inductor |-> aux.use_inductor,
     custom_ops |-> <<>>,
     has_lora |-> aux.has_lora,
     device_type |-> core.device_type]

\* What the method reads from the process it runs in.
MkHost(core, aux) ==
    [ipex_available |-> core.ipex_available,
     VLLM_CPU_KVCACHE_SPACE |-> aux.VLLM_CPU_KVCACHE_SPACE,
     VLLM_CPU_CI_ENV |-> aux.VLLM_CPU_CI_ENV,
     LD_PRELOAD |-> aux.LD_PRELOAD,
     has_sched_getaffinity |-> aux.os.has_sched_getaffinity,
     system |-> aux.os.system,
     n_affinity |-> 2,
     cpu_count |-> 4,
     torch_num_threads |-> 2]

AttnIdle == [status |-> "none"]
TopoIdle == [status |-> "none"]

Init ==
    /\ \E in \in ResolveInputs :
          /\ cfg = MkConfig(in[1], in[2])
          /\ host = MkHost(in[1], in[2])
    /\ cfg0 = cfg
    /\ environ = <<>>
    /\ env_writes = {}
    /\ pc = "idle"
    /\ failure = ""
    /\ calls = 0
    /\ attn = AttnIdle
    /\ topo = TopoIdle

(***************************************************************************)
(* check_and_update_config, rule by rule.                                  *)
(***************************************************************************)
\* The positions of a call, in program order; "done" is the return.
Steps ==
    <<"cascade", "block_size", "fp8_check", "fp8_remap", "dtype_cast",
      "kvcache_space", "executor_backend", "worker_cls", "cudagraph",
      "piecewise", "lora", "device_assert", "env_multiproc", "env_numexpr",
      "env_omp", "env_inductor", "env_kmp", "env_local_world_size", "mla",
      "done">>

Pos(p) == CHOOSE i \in 1..Len(Steps) : Steps[i] = p

\* The call moves from position p to the next one with configuration c.
Goto(p, c) ==
    /\ pc = p
    /\ pc' = Steps[Pos(p) + 1]
    /\ cfg' = c
    /\ UNCHANGED <<cfg0, host, failure, calls, attn, topo>>

\* The call ends at position p by raising exc; c is the configuration as
\* mutated so far.
Raise(p, exc, c) ==
    /\ pc = p
    /\ pc' = "failed"
    /\ failure' = exc
    /\ cfg' = c
    /\ UNCHANGED <<cfg0, host, calls, environ, env_writes, attn, topo>>

\* os.environ[name] = value
SetEnv(name, value) ==
    /\ environ' = (name :> value) @@ environ
    /\ env_writes' = env_writes \cup {name}

NoEnv == UNCHANGED <<environ, env_writes>>

\* A caller passes the configuration to check_and_update_config: the first
\* call, or a further call on the configuration a call has resolved.
CallResolve ==
    /\ pc \in {"idle", "done"}
    /\ calls < MaxCalls
    /\ calls' = calls + 1
    /\ pc' = "cascade"
    /\ cfg0' = cfg
    /\ env_writes' = {}
    /\ failure' = ""
    /\ UNCHANGED <<cfg, host, environ, attn, topo>>

\* if model_config is not None: model_config.disable_cascade_attn = True
RuleCascade ==
    /\ Goto("cascade",
            IF cfg.has_model THEN [cfg EXCEPT !.disable_cascade_attn = TRUE]
            ELSE cfg)
    /\ NoEnv

\* The defaults exchanged: 16 with the extension, 128 without.
DefaultBlockSize_Swapped(c, ipex_available) ==
    IF c.has_cache /\ c.block_size = None
    THEN [c EXCEPT !.block_size = Some(IF ipex_available THEN 16 ELSE 128)]
    ELSE c

\* The configuration after the block-size default is applied.
DefaultBlockSize(c, ipex_available) ==
    IF c.has_cache /\ c.block_size = None
    THEN [c EXCEPT !.block_size = Some(IF ipex_available THEN 128 ELSE 16)]
    ELSE c

\* Rule: default the block size, then reject a size other than 16 without
\* the extension.  With cache_config None the attribute read raises.
RuleBlockSize ==
    LET c == DefaultBlockSize(cfg, host.ipex_available) IN
    /\ IF ~host.ipex_available /\ ~c.has_cache
       THEN Raise("block_size", "AttributeError", c)
       ELSE IF ~host.ipex_available /\ c.block_size # Some(16)
       THEN Raise("block_size", "RuntimeError: block_size", c)
       ELSE Goto("block_size", c) /\ NoEnv

\* The rejection tests chunked prefill only.
RuleFp8Check_ChunkedOnly ==
    IF ~cfg.has_cache
    THEN Raise("fp8_check", "AttributeError", cfg)
    ELSE IF cfg.chunked_prefill_enabled /\ cfg.cache_dtype # "auto"
    THEN Raise("fp8_check", "RuntimeError: fp8", cfg)
    ELSE Goto("fp8_check", cfg) /\ NoEnv

\* Rule: chunked prefill or prefix caching with a cache dtype other than
\* "auto" is rejected.  With cache_config None the attribute read raises.
RuleFp8Check ==
    IF ~cfg.has_cache
    THEN Raise("fp8_check", "AttributeError", cfg)
    ELSE IF (cfg.chunked_prefill_enabled \/ cfg.enable_prefix_caching)
            /\ cfg.cache_dtype # "auto"
    THEN Raise("fp8_check", "RuntimeError: fp8", cfg)
    ELSE Goto("fp8_check", cfg) /\ NoEnv

\* The cast is left out.
RuleFp8Remap_Missing ==
    /\ Goto("fp8_remap", cfg)
    /\ NoEnv

\* Rule: fp8_e4m3 is cast to fp8_e5m2.
RuleFp8Remap ==
    /\ Goto("fp8_remap",
            IF cfg.cache_dtype = "fp8_e4m3"
            THEN [cfg EXCEPT !.cache_dtype = "fp8_e5m2"]
            ELSE cfg)
    /\ NoEnv

\* Rule: an FP8 KV cache casts a float16 model to bfloat16.
RuleDtypeCast ==
    /\ Goto("dtype_cast",
            IF cfg.cache_dtype # "auto" /\ cfg.has_model /\ cfg.dtype = "float16"
            THEN [cfg EXCEPT !.dtype = "bfloat16"]
            ELSE cfg)
    /\ NoEnv

\* CpuPlatform.get_device_total_memory()
get_device_total_memory(kv_cache_space) ==
    IF kv_cache_space = None THEN 4 * GiB_bytes
    ELSE kv_cache_space[1] * GiB_bytes

\* cache_config.cpu_kvcache_space_bytes = get_device_total_memory()
RuleKvCacheSpace ==
    /\ Goto("kvcache_space",
            [cfg EXCEPT !.cpu_kvcache_space_bytes =
                Some(get_device_total_memory(host.VLLM_CPU_KVCACHE_SPACE))])
    /\ NoEnv

\* Rule: with several workers an executor backend other than "mp" falls
\* back to "mp".
RuleExecutorBackend ==
    /\ Goto("executor_backend",
            IF /\ cfg.world_size > 1
               /\ cfg.distributed_executor_backend # "None"
               /\ cfg.distributed_executor_backend # "mp"
            THEN [cfg EXCEPT !.distributed_executor_backend = "mp"]
            ELSE cfg)
    /\ NoEnv

\* Rule: worker_cls "auto" becomes the CPU worker.
RuleWorkerCls ==
    /\ Goto("worker_cls",
            IF cfg.worker_cls = "auto"
            THEN [cfg EXCEPT !.worker_cls = CPUWorker]
            ELSE cfg)
    /\ NoEnv

\* compilation_config.cudagraph_capture_sizes = []
RuleCudagraph ==
    /\ Goto("cudagraph", [cfg EXCEPT !.cudagraph_capture_sizes = <<>>])
    /\ NoEnv

\* os.environ.get("VLLM_CPU_CI_ENV", "0") != "0"
CiEnv(v) == (IF v = None THEN "0" ELSE v[1]) # "0"

\* Rule: PIECEWISE compilation becomes DYNAMO_ONCE with the eager (CI) or
\* the inductor backend and the fixed inductor options.
RulePiecewise ==
    /\ Goto("piecewise",
            IF cfg.level = "PIECEWISE"
            THEN [cfg EXCEPT
                    !.level = "DYNAMO_ONCE",
                    !.backend = IF CiEnv(host.VLLM_CPU_CI_ENV) THEN "eager"
                                ELSE "inductor",
                    !.inductor_compile_config =
                        ("dce" :> TRUE @@ "size_asserts" :> FALSE
                         @@ "nan_asserts" :> FALSE @@ "epilogue_fusion" :> TRUE)
                        @@ cfg.inductor_compile_config,
                    !.custom_ops = IF cfg.use_inductor THEN <<"none">>
                                   ELSE cfg.custom_ops]
            ELSE cfg)
    /\ NoEnv

\* Rule: with LoRA the compilation level is NO_COMPILATION.
RuleLora ==
    /\ Goto("lora",
            IF cfg.has_lora THEN [cfg EXCEPT !.level = "NO_COMPILATION"]
            ELSE cfg)
    /\ NoEnv

\* The assertion placed after the first environment variable is written.
RuleDeviceAssert_AfterEnv ==
    /\ pc = "device_assert"
    /\ SetEnv("VLLM_WORKER_MULTIPROC_METHOD", "spawn")
    /\ IF cfg.device_type = "cpu"
       THEN /\ pc' = "env_multiproc"
            /\ UNCHANGED failure
       ELSE /\ pc' = "failed"
            /\ failure' = "AssertionError: device_type"
    /\ UNCHANGED <<cfg, cfg0, host, calls, attn, topo>>

\* assert vllm_config.device_config.device_type == "cpu"
RuleDeviceAssert ==
    IF cfg.device_type = "cpu"
    THEN Goto("device_assert", cfg) /\ NoEnv
    ELSE Raise("device_assert", "AssertionError: device_type", cfg)

(***************************************************************************)
(* The environment variables for the CPU executor, then the MLA rule.      *)
(***************************************************************************)
\* get_max_threads(): the size of the affinity set, or os.cpu_count() on
\* Darwin; None stands for the NotImplementedError of any other OS.
get_max_threads(h) ==
    IF h.has_sched_getaffinity THEN Some(h.n_affinity)
    ELSE IF h.system = "Darwin" THEN Some(h.cpu_count)
    ELSE None

\* "libiomp5.so" in os.getenv("LD_PRELOAD", "")
HasIomp(ld_preload) ==
    (IF ld_preload = None THEN "" ELSE ld_preload[1])
        \in {"/usr/lib/libiomp5.so", "libiomp5.so"}

KmpSettings ==
    "KMP_BLOCKTIME" :> "1" @@ "KMP_TPAUSE" :> "0"
    @@ "KMP_FORKJOIN_BARRIER_PATTERN" :> "dist,dist"
    @@ "KMP_PLAIN_BARRIER_PATTERN" :> "dist,dist"
    @@ "KMP_REDUCTION_BARRIER_PATTERN" :> "dist,dist"

\* os.environ["VLLM_WORKER_MULTIPROC_METHOD"] = "spawn"
EnvMultiproc ==
    /\ Goto("env_multiproc", cfg)
    /\ SetEnv("VLLM_WORKER_MULTIPROC_METHOD", "spawn")

\* os.environ["NUMEXPR_MAX_THREADS"] = str(get_max_threads())
EnvNumexpr ==
    LET n == get_max_threads(host) IN
    IF n = None
    THEN Raise("env_numexpr", "NotImplementedError: Unsupported OS", cfg)
    ELSE Goto("env_numexpr", cfg) /\ SetEnv("NUMEXPR_MAX_THREADS", ToString(n[1]))

\* os.environ["OMP_NUM_THREADS"] = str(torch.get_num_threads())
EnvOmp ==
    /\ Goto("env_omp", cfg)
    /\ SetEnv("OMP_NUM_THREADS", ToString(host.torch_num_threads))

\* os.environ["TORCHINDUCTOR_COMPILE_THREADS"] = "1"
EnvInductor ==
    /\ Goto("env_inductor", cfg)
    /\ SetEnv("TORCHINDUCTOR_COMPILE_THREADS", "1")

\* The Intel OpenMP settings, written when libiomp5.so is preloaded.
EnvKmp ==
    /\ Goto("env_kmp", cfg)
    /\ IF HasIomp(host.LD_PRELOAD)
       THEN /\ environ' = KmpSettings @@ environ
            /\ env_writes' = env_writes \cup DOMAIN KmpSettings
       ELSE NoEnv

\* os.environ["LOCAL_WORLD_SIZE"] = str(parallel_config.tensor_parallel_size)
EnvLocalWorldSize ==
    /\ Goto("env_local_world_size", cfg)
    /\ SetEnv("LOCAL_WORLD_SIZE", ToString(cfg.tensor_parallel_size))

\* The flags set to True instead of False.
RuleMla_EnablesChunked ==
    /\ Goto("mla",
            IF cfg.has_model /\ cfg.use_mla
            THEN [cfg EXCEPT
                    !.enable_chunked_prefill = TRUE,
                    !.chunked_prefill_enabled = TRUE,
                    !.max_num_batched_tokens =
                        Max(cfg.max_model_len, DEFAULT_MAX_NUM_BATCHED_TOKENS)]
            ELSE cfg)
    /\ NoEnv

\* The budget taken from the model length alone.
RuleMla_ModelLenOnly ==
    /\ Goto("mla",
            IF cfg.has_model /\ cfg.use_mla
            THEN [cfg EXCEPT
                    !.enable_chunked_prefill = FALSE,
                    !.chunked_prefill_enabled = FALSE,
                    !.max_num_batched_tokens = cfg.max_model_len]
            ELSE cfg)
    /\ NoEnv

\* The test of use_mla dropped: the rule applies to every model.
RuleMla_AnyModel ==
    /\ Goto("mla",
            IF cfg.has_model
            THEN [cfg EXCEPT
                    !.enable_chunked_prefill = FALSE,
                    !.chunked_prefill_enabled = FALSE,
                    !.max_num_batched_tokens =
                        Max(cfg.max_model_len, DEFAULT_MAX_NUM_BATCHED_TOKENS)]
            ELSE cfg)
    /\ NoEnv

\* Rule: with MLA, chunked prefill is turned off and the batched-token
\* budget is set from the model length and the platform default.
RuleMla ==
    /\ Goto("mla",
            IF cfg.has_model /\ cfg.use_mla
            THEN [cfg EXCEPT
                    !.enable_chunked_prefill = FALSE,
                    !.chunked_prefill_enabled = FALSE,
                    !.max_num_batched_tokens =
                        Max(cfg.max_model_len, DEFAULT_MAX_NUM_BATCHED_TOKENS)]
            ELSE cfg)
    /\ NoEnv

Next ==
    \/ CallResolve
    \/ RuleCascade
    \/ RuleBlockSize
    \/ RuleFp8Check
    \/ RuleFp8Remap
    \/ RuleDtypeCast
    \/ RuleKvCacheSpace
    \/ RuleExecutorBackend
    \/ RuleWorkerCls
    \/ RuleCudagraph
    \/ RulePiecewise
    \/ RuleLora
    \/ RuleDeviceAssert
    \/ EnvMultiproc
    \/ EnvNumexpr
    \/ EnvOmp
    \/ EnvInductor
    \/ EnvKmp
    \/ EnvLocalWorldSize
    \/ RuleMla

Spec == Init /\ [][Next]_vars

(***************************************************************************)
(* get_attn_backend_cls.                                                   *)
(***************************************************************************)
\* The outcome of a call: the value returned or the exception raised, and
\* the messages logged up to there.
Returned(value, log) == [status |-> "returned", value |-> value, log |-> log]
Raised(exc, log) == [status |-> "raised", value |-> exc, log |-> log]

\* The V1 test placed before the MLA test.
get_attn_backend_cls_V1First(selected_backend, head_size, dtype, kv_cache_dtype, block_size, use_v1, use_mla) ==
    LET log1 == IF selected_backend # "None" /\ selected_backend # "TORCH_SDPA"
                THEN <<"Cannot use backend on CPU.">>
                ELSE <<>>
        log2 == Append(log1, "Using Torch SDPA backend.")
    IN  IF ~use_v1
        THEN Raised("ValueError", log2)
        ELSE IF use_mla
        THEN Raised("NotImplementedError", log1)
        ELSE Returned(TorchSDPABackend, log2)

\* selected_backend is a _Backend member or "None"; only None is falsy.
get_attn_backend_cls(selected_backend, head_size, dtype, kv_cache_dtype, block_size, use_v1, use_mla) ==
    LET log1 == IF selected_backend # "None" /\ selected_backend # "TORCH_SDPA"
                THEN <<"Cannot use backend on CPU.">>
                ELSE <<>>
        log2 == Append(log1, "Using Torch SDPA backend.")
    IN  IF use_mla
        THEN Raised("NotImplementedError", log1)
        ELSE IF ~use_v1
        THEN Raised("ValueError", log2)
        ELSE Returned(TorchSDPABackend, log2)

AttnArgs ==
    [selected_backend : {"None", "TORCH_SDPA", "FLASH_ATTN", "XFORMERS"},
     head_size : {64, 128},
     dtype : {"bfloat16", "float16", "float32"},
     kv_cache_dtype : {None, Some("auto"), Some("fp8_e5m2")},
     block_size : {16, 128},
     use_v1 : BOOLEAN,
     use_mla : BOOLEAN]

\* No call of check_and_update_config is in progress or was made.
ResolveIdle ==
    /\ \E in \in CoreBase \X AuxBase :
          /\ in[1].ipex_available /\ in[2].world_size = 1
          /\ cfg = MkConfig(in[1], in[2])
          /\ host = MkHost(in[1], in[2])
    /\ cfg0 = cfg
    /\ environ = <<>>
    /\ env_writes = {}
    /\ pc = "idle"
    /\ failure = ""
    /\ calls = 0

InitAttn ==
    /\ ResolveIdle
    /\ \E a \in AttnArgs : attn = [status |-> "called", args |-> a]
    /\ topo = TopoIdle

\* The call runs to its return or its exception.
GetAttnBackendCls ==
    /\ attn.status = "called"
    /\ attn' = [status |-> "finished", args |-> attn.args,
                result |-> get_attn_backend_cls(
                    attn.args.selected_backend, attn.args.head_size,
                    attn.args.dtype, attn.args.kv_cache_dtype,
                    attn.args.block_size, attn.args.use_v1, attn.args.use_mla)]
    /\ UNCHANGED <<rvars, topo>>

NextAttn == GetAttnBackendCls

SpecAttn == InitAttn /\ [][NextAttn]_vars

(***************************************************************************)
(* LogicalCPUInfo and get_allowed_cpu_memory_node_list.                    *)
(***************************************************************************)
\* _int(s) for the strings lscpu reports here; any other string raises.
IntLiterals == "0" :> 0 @@ "1" :> 1 @@ "2" :> 2 @@ "-1" :> (-1) @@ "-2" :> (-2)

\* LogicalCPUInfo._int
_int(value) == IF value \in DOMAIN IntLiterals THEN IntLiterals[value] ELSE -1

\* LogicalCPUInfo.json_decoder on one object of the "cpus" array: a
\* LogicalCPUInfo when the three keys hold a value, else the dict itself.
json_decoder(obj_dict) ==
    IF ~(obj_dict.cpu = None \/ obj_dict.core = None \/ obj_dict.node = None)
    THEN [kind |-> "LogicalCPUInfo",
          id |-> _int(obj_dict.cpu[1]),
          physical_core |-> _int(obj_dict.core[1]),
          numa_node |-> _int(obj_dict.node[1])]
    ELSE [kind |-> "dict", obj |-> obj_dict]

\* [x for x in l if -1 not in (x.id, x.physical_core, x.numa_node)]
FilterValid(l) ==
    SelectSeq(l, LAMBDA x : -1 \notin {x.id, x.physical_core, x.numa_node})

\* The affinity test applied to the physical core instead of the CPU id.
FilterAllowed_ByCore(l, allowed_cpu_id_list) ==
    SelectSeq(l, LAMBDA x : x.physical_core \in allowed_cpu_id_list)

\* [x for x in l if x.id in allowed_cpu_id_list]
FilterAllowed(l, allowed_cpu_id_list) ==
    SelectSeq(l, LAMBDA x : x.id \in allowed_cpu_id_list)

\* The set built by allowed_numa_nodes.add(x.numa_node) over the list.
AllowedNumaNodes(l) == {l[i].numa_node : i \in 1..Len(l)}

RECURSIVE sorted(_)
\* sorted(S) of a set of integers: ascending.
sorted(S) ==
    IF S = {} THEN <<>>
    ELSE LET m == CHOOSE x \in S : \A y \in S : x <= y
         IN  <<m>> \o sorted(S \ {m})

\* system is platform.system(), lscpu the "cpus" array of the lscpu output,
\* affinity is os.sched_getaffinity(0).
get_allowed_cpu_memory_node_list(system, lscpu, affinity) ==
    IF system # "Linux" THEN [status |-> "raised", value |-> "AssertionError"]
    ELSE
    LET logical_cpu_list == [i \in 1..Len(lscpu) |-> json_decoder(lscpu[i])]
    IN  IF \E i \in 1..Len(lscpu) : logical_cpu_list[i].kind = "dict"
        THEN [status |-> "raised", value |-> "AttributeError"]
        ELSE LET allowed == FilterAllowed(FilterValid(logical_cpu_list), affinity)
             IN  [status |-> "returned",
                  nodes |-> sorted(AllowedNumaNodes(allowed)),
                  cpus |-> allowed]

\* The objects lscpu may report: every well-formed one over three CPUs and
\* two NUMA nodes, and malformed ones.
LscpuObjects ==
    [cpu : {Some("0"), Some("1"), Some("2")}, core : {Some("0")},
     node : {Some("0"), Some("1")}]
    \cup {[cpu |-> Some("-"), core |-> Some("0"), node |-> Some("0")],
          [cpu |-> Some("0"), core |-> Some("-"), node |-> Some("1")],
          [cpu |-> Some("1"), core |-> Some("0"), node |-> Some("-1")],
          [cpu |-> Some("1"), core |-> Some("1"), node |-> Some("-2")],
          [cpu |-> Some("2"), core |-> Some("0"), node |-> None]}

LscpuLists == UNION {[1..n -> LscpuObjects] : n \in 0..MaxCpus}

InitTopo ==
    /\ ResolveIdle
    /\ attn = AttnIdle
    /\ \E system \in {"Linux", "Darwin"}, lscpu \in LscpuLists,
          affinity \in SUBSET {0, 1, 2} :
          topo = [status |-> "called", system |-> system, lscpu |-> lscpu,
                  affinity |-> affinity]

\* The call runs to its return or its exception.
GetAllowedCpuMemoryNodeList ==
    /\ topo.status = "called"
    /\ topo' = [status |-> "finished", system |-> topo.system,
                lscpu |-> topo.lscpu, affinity |-> topo.affinity,
                result |-> get_allowed_cpu_memory_node_list(
                    topo.system, topo.lscpu, topo.affinity)]
    /\ UNCHANGED <<rvars, attn>>

NextTopo == GetAllowedCpuMemoryNodeList

SpecTopo == InitTopo /\ [][NextTopo]_vars

(***************************************************************************)
(* Properties of check_and_update_config (specification Spec).             *)
(***************************************************************************)
Before(p) == pc \in {Steps[i] : i \in 1..Pos(p)}

BlockSizeError == "RuntimeError: block_size"
Fp8Error == "RuntimeError: fp8"
DeviceError == "AssertionError: device_type"
OsError == "NotImplementedError: Unsupported OS"

\* C1: a call of check_and_update_config on a configuration that an earlier
\* call resolved (same host) does not fail and changes no field of it, at
\* any point of the call.
C1_Idempotent ==
    calls >= 2 => (pc # "failed" /\ cfg = cfg0)

\* A second call has returned on a configuration whose cache dtype and
\* compilation level the first call rewrote.
C1_Witness ==
    /\ calls = 2 /\ pc = "done"
    /\ cfg.cache_dtype = "fp8_e5m2" /\ cfg.level = "DYNAMO_ONCE"
    /\ cfg.block_size = Some(128)

\* C2 as claimed: with cache dtype "fp8_e4m3", whatever the other fields,
\* the call never fails and returns with cache dtype "fp8_e5m2".
C2_NeverFails ==
    (calls >= 1 /\ cfg0.has_cache /\ cfg0.cache_dtype = "fp8_e4m3")
        => (pc # "failed" /\ (pc = "done" => cfg.cache_dtype = "fp8_e5m2"))

\* C2 as amended: with cache dtype "fp8_e4m3" a call that returns has cache
\* dtype "fp8_e5m2"; a call fails only at the block-size rule, the FP8
\* compatibility rule, the device assertion or the thread count, and it does
\* not fail at all when the block size is supported, chunked prefill and
\* prefix caching are off, the device is cpu and the OS gives a thread count.
C2_RemappedUnlessRejected ==
    (calls >= 1 /\ cfg0.has_cache /\ cfg0.cache_dtype = "fp8_e4m3") =>
        /\ pc = "done" => cfg.cache_dtype = "fp8_e5m2"
        /\ pc = "failed" =>
              failure \in {BlockSizeError, Fp8Error, DeviceError, OsError}
        /\ (pc = "failed" /\ failure = Fp8Error) =>
              (cfg0.chunked_prefill_enabled \/ cfg0.enable_prefix_caching)
        /\ ( /\ host.ipex_available \/ cfg0.block_size \in {None, Some(16)}
             /\ ~cfg0.chunked_prefill_enabled
             /\ ~cfg0.enable_prefix_caching
             /\ cfg0.device_type = "cpu"
             /\ host.has_sched_getaffinity \/ host.system = "Darwin" )
           => pc # "failed"

\* A call on a configuration with cache dtype "fp8_e4m3" has returned.
C2_Witness ==
    /\ calls = 1 /\ pc = "done"
    /\ cfg0.cache_dtype = "fp8_e4m3" /\ cfg.cache_dtype = "fp8_e5m2"

\* C3: a configuration with chunked prefill or prefix caching enabled and a
\* cache dtype other than "auto" never gets past the FP8 compatibility rule
\* and its call fails; so a call that returns with a cache dtype other than
\* "auto" has chunked prefill and prefix caching disabled.
C3_Fp8Incompatible ==
    /\ ( /\ calls >= 1 /\ cfg0.has_cache
         /\ cfg0.chunked_prefill_enabled \/ cfg0.enable_prefix_caching
         /\ cfg0.cache_dtype # "auto" )
       => (pc = "failed" \/ Before("fp8_check"))
    /\ (pc = "done" /\ cfg.cache_dtype # "auto")
       => /\ ~cfg.chunked_prefill_enabled
          /\ ~cfg.enable_chunked_prefill
          /\ ~cfg.enable_prefix_caching

\* The FP8 compatibility rule has rejected a configuration that enables only
\* prefix caching, with a block size the block-size rule accepts.
C3_Witness ==
    /\ pc = "failed" /\ failure = Fp8Error
    /\ cfg0.enable_prefix_caching /\ ~cfg0.chunked_prefill_enabled
    /\ cfg0.cache_dtype = "fp8_e5m2"

\* C4: an unset block size becomes 128 with the extension and 16 without;
\* without the extension a block size set to anything but 16 makes the call
\* fail at the block-size rule; a call that returns without the extension
\* has block size 16; a block size that was set is never overwritten.
C4_BlockSize ==
    (calls >= 1 /\ cfg0.has_cache) =>
        /\ cfg0.block_size # None => cfg.block_size = cfg0.block_size
        /\ (cfg0.block_size = None /\ ~Before("block_size")) =>
              cfg.block_size = Some(IF host.ipex_available THEN 128 ELSE 16)
        /\ (~host.ipex_available /\ cfg0.block_size \notin {None, Some(16)}) =>
              /\ pc = "failed" \/ Before("block_size")
              /\ pc = "failed" => failure = BlockSizeError
        /\ (pc = "done" /\ ~host.ipex_available) => cfg.block_size = Some(16)

\* A first call with the block size unset has returned, without the extension.
C4_Witness ==
    /\ calls = 1 /\ pc = "done"
    /\ cfg0.block_size = None /\ ~host.ipex_available
    /\ cfg.block_size = Some(16)

\* C5 as claimed: a call that returns for a model using MLA leaves chunked
\* prefill and prefix caching disabled.
C5_MlaDisablesBoth ==
    (pc = "done" /\ cfg.has_model /\ cfg.use_mla) =>
        /\ ~cfg.enable_chunked_prefill
        /\ ~cfg.chunked_prefill_enabled
        /\ ~cfg.enable_prefix_caching

\* C6 as claimed: for a model using MLA the returned max_num_batched_tokens
\* is at least max(max_model_len, default) and not lower than at entry.
C6_OnlyRaises ==
    (pc = "done" /\ cfg.has_model /\ cfg.use_mla) =>
        /\ cfg.max_num_batched_tokens >= cfg.max_model_len
        /\ cfg.max_num_batched_tokens >= DEFAULT_MAX_NUM_BATCHED_TOKENS
        /\ cfg.max_num_batched_tokens >= cfg0.max_num_batched_tokens

\* C6 as amended: for a model using MLA the returned max_num_batched_tokens
\* is exactly the larger of max_model_len and the default, whatever it was
\* at entry.
C6_SetToMax ==
    (pc = "done" /\ cfg.has_model /\ cfg.use_mla) =>
        /\ cfg.max_num_batched_tokens >= cfg.max_model_len
        /\ cfg.max_num_batched_tokens >= DEFAULT_MAX_NUM_BATCHED_TOKENS
        /\ cfg.max_num_batched_tokens
              \in {cfg.max_model_len, DEFAULT_MAX_NUM_BATCHED_TOKENS}
        /\ cfg.max_model_len = cfg0.max_model_len

\* A first call for a model using MLA has returned with a budget lower than
\* the one it was given.
C6_Witness ==
    /\ calls = 1 /\ pc = "done" /\ cfg.has_model /\ cfg.use_mla
    /\ cfg.max_num_batched_tokens < cfg0.max_num_batched_tokens

C9_NoEnvOnRejection ==
    (pc = "failed" /\ failure \in {BlockSizeError, Fp8Error, DeviceError}) =>
        /\ env_writes = {}
        /\ calls = 1 => environ = <<>>

\* The device assertion has failed after earlier rules mutated the
\* configuration.
C9_Witness ==
    /\ pc = "failed" /\ failure = DeviceError
    /\ cfg # cfg0 /\ cfg.level # cfg0.level
    /\ env_writes = {}

(***************************************************************************)
(* Properties of get_attn_backend_cls (specification SpecAttn).            *)
(***************************************************************************)
\* C7: for every requested backend the call raises NotImplementedError when
\* use_mla is true (also when use_v1 is false), raises ValueError when
\* use_mla is false and use_v1 is false, and otherwise returns the Torch
\* SDPA backend; a request for another backend is only logged.
C7_AttnBackend ==
    attn.status = "finished" =>
        LET a == attn.args
            r == attn.result
        IN  /\ a.use_mla =>
                  (r.status = "raised" /\ r.value = "NotImplementedError")
            /\ (~a.use_mla /\ ~a.use_v1) =>
                  (r.status = "raised" /\ r.value = "ValueError")
            /\ (~a.use_mla /\ a.use_v1) =>
                  (r.status = "returned" /\ r.value = TorchSDPABackend)
            /\ a.selected_backend \notin {"None", "TORCH_SDPA"} =>
                  (Len(r.log) >= 1 /\ r.log[1] = "Cannot use backend on CPU.")

\* A call with use_mla true and use_v1 false, asking for another backend,
\* has been rejected for MLA.
C7_Witness ==
    /\ attn.status = "finished"
    /\ attn.args.use_mla /\ ~attn.args.use_v1
    /\ attn.args.selected_backend = "FLASH_ATTN"
    /\ attn.result.status = "raised"
    /\ attn.result.value = "NotImplementedError"

(***************************************************************************)
(* Properties of get_allowed_cpu_memory_node_list (specification SpecTopo).*)
(***************************************************************************)
\* The reported object i holds three integers, none of them -1, and its id
\* is in the affinity set.
Kept(i) ==
    LET o == topo.lscpu[i] IN
    /\ _int(o.cpu[1]) # -1 /\ _int(o.core[1]) # -1 /\ _int(o.node[1]) # -1
    /\ _int(o.cpu[1]) \in topo.affinity

\* The number of kept objects among the first i reported.
Rank(i) == Cardinality({j \in 1..i : Kept(j)})

\* C10: a call that returns gives, in the reported order, exactly the CPUs
\* whose id, core and node are integers other than -1 and whose id is in the
\* affinity set, and the NUMA nodes of these CPUs in ascending order without
\* duplicates.
C10_Topology ==
    (topo.status = "finished" /\ topo.result.status = "returned") =>
        LET cpus == topo.result.cpus
            nodes == topo.result.nodes
            n == Len(topo.lscpu)
        IN  /\ Len(cpus) = Rank(n)
            /\ \A i \in 1..n : Kept(i) =>
                  /\ cpus[Rank(i)].id = _int(topo.lscpu[i].cpu[1])
                  /\ cpus[Rank(i)].physical_core = _int(topo.lscpu[i].core[1])
                  /\ cpus[Rank(i)].numa_node = _int(topo.lscpu[i].node[1])
            /\ \A i \in 1..Len(nodes), j \in 1..Len(nodes) :
                  i < j => nodes[i] < nodes[j]
            /\ {nodes[i] : i \in 1..Len(nodes)}
                  = {cpus[i].numa_node : i \in 1..Len(cpus)}

\* A call has returned two CPUs of three reported, on nodes reported in
\* descending order.
C10_Witness ==
    /\ topo.status = "finished" /\ topo.result.status = "returned"
    /\ Len(topo.lscpu) = 3 /\ Len(topo.result.cpus) = 2
    /\ topo.result.cpus[1].numa_node = 1 /\ topo.result.cpus[2].numa_node = 0
    /\ topo.result.nodes = <<0, 1>>

=============================================================================
